---------------------------- MODULE Spec2Model ----------------------------
(***************************************************************************)
(* Rating and fair-ranking engine of the FindSchool.uk directory.          *)
(*                                                                         *)
(* Numbers that are optional in the JavaScript (null / undefined against a *)
(* value, zero included) are modelled as sequences: <<>> is the absent     *)
(* value and <<v>> is the number v.  Ratings are kept in tenths, so 9.0 is *)
(* <<90>> and 8.3 is <<83>>.                                               *)
(***************************************************************************)
EXTENDS Integers, Sequences, FiniteSets, TLC

VARIABLES
  pc,              \* position of the handler being run
  schoolsArg,      \* city.js: the `schools` argument of categorizeAndRankSchools
  isScottishFlag,  \* city.js: cityData.isScottish as read by the ranking
  rankedOut,       \* city.js: the sequence categorizeAndRankSchools returns
  rankedAgain,     \* city.js: what a second call of categorizeAndRankSchools returns
  searchRows,      \* the schools the server holds for the city being viewed
  cityData,        \* city.js: the page's global cityData
  countryLookup,   \* city.js: outcome of the fetch made by getCityCountry
  topPrimary,      \* city.js: the ranked list rendered into #primarySchools
  topSecondary,    \* city.js: the ranked list rendered into #secondarySchools
  listArg,         \* city.js renderSchoolList: its `schools` argument
  hasContainer,    \* city.js renderSchoolList: whether the container element exists
  topSchools,      \* city.js renderSchoolList: topSchools after the slice
  listItems,       \* city.js renderSchoolList: the entries written to the container
  payload,         \* school page: data.school as /api/schools/:urn answers it
  currentSchoolData, \* school page: the global currentSchoolData
  isScottishSchool, \* school page: the global isScottishSchool
  dbRow,           \* server: the joined row of the school a request is about
  response,        \* server: the JSON the handler answered
  laRows,          \* server: the rows of the local authority's schools
  textColumns,     \* server: whether the driver delivers the figures as text
  laSummary,       \* server: the averages the summary handler answered
  storedRatings,   \* database: what uk_schools holds as the rating of each school
  failingSchools,  \* database: the schools whose recomputation raises an error
  batchRun,        \* scripts/updateRatings.js: the state of each run of the driver
  scienceDom,      \* school page: the science test-score row and breakdown item
  reviewRows,      \* database: rows of uk_school_reviews of one IP for one school
  reviewReq,       \* server: the review submissions being handled
  reviewExists,    \* database: whether the review being voted on exists
  rewrittenRoutes, \* server: whether the rewritten review routes are mounted
  voteRows,        \* database: rows of uk_review_helpful_votes of one IP for the review
  helpfulCount,    \* database: helpful_count of the review
  helpfulReq,      \* server: the helpful requests being handled
  searchRequest,   \* server: req.query of a GET /api/search
  searchAnswer,    \* server: the two statements GET /api/search ran
  routeRequest,    \* server: the path of a GET with two segments
  routeAnswer      \* server: the route reached and what it answered

rankVars == <<schoolsArg, isScottishFlag, rankedOut, rankedAgain>>
listVars == <<listArg, hasContainer, topSchools, listItems>>
cityVars == <<searchRows, cityData, countryLookup, topPrimary, topSecondary, listVars>>
schoolVars == <<payload, currentSchoolData, isScottishSchool>>
laVars == <<laRows, textColumns, laSummary>>
apiVars == <<dbRow, response, laVars>>
batchVars == <<storedRatings, failingSchools, batchRun>>
pageVars == <<scienceDom>>
reviewVars == <<reviewRows, reviewReq>>
helpfulVars == <<reviewExists, rewrittenRoutes, voteRows, helpfulCount, helpfulReq>>
httpVars == <<searchRequest, searchAnswer, routeRequest, routeAnswer>>
webVars == <<reviewVars, helpfulVars, httpVars>>
opsVars == <<batchVars, pageVars, webVars>>
vars == <<pc, rankVars, cityVars, schoolVars, apiVars, opsVars>>

----------------------------------------------------------------------------
(* Optional numbers *)

Absent == <<>>
Num(v) == <<v>>
Present(x) == x # Absent
Val(x) == x[1]

\* JavaScript truthiness of an optional number: null, undefined and 0 are falsy.
Truthy(x) == Present(x) /\ Val(x) # 0

\* `x >= n` in JavaScript: undefined compares false with every number.
AtLeast(x, n) == Present(x) /\ Val(x) >= n

----------------------------------------------------------------------------
(* The state of each page before it is loaded; a specification that runs one
   page leaves the others in this state. *)

RankIdle ==
  /\ schoolsArg = <<>>
  /\ isScottishFlag = FALSE
  /\ rankedOut = <<>>
  /\ rankedAgain = <<>>

\* The let cityData = {...} at the top of city.js.
InitialCityData ==
  [schools |-> <<>>, country |-> "England", isNonEngland |-> FALSE,
   isScottish |-> FALSE, primary |-> <<>>, secondary |-> <<>>,
   primaryCount |-> 0, secondaryCount |-> 0]

ListIdle ==
  /\ listArg = <<>>
  /\ hasContainer = FALSE
  /\ topSchools = <<>>
  /\ listItems = <<>>

CityIdle ==
  /\ searchRows = <<>>
  /\ cityData = InitialCityData
  /\ countryLookup = "none"
  /\ topPrimary = <<>>
  /\ topSecondary = <<>>
  /\ ListIdle

\* let currentSchoolData = null
NoSchool == [loaded |-> FALSE]

SchoolIdle ==
  /\ payload = NoSchool
  /\ currentSchoolData = NoSchool
  /\ isScottishSchool = FALSE

NoRow == [loaded |-> FALSE]

LaIdle ==
  /\ laRows = <<>>
  /\ textColumns = FALSE
  /\ laSummary = NoRow

\* No run of the batch driver has been started.
BatchIdle ==
  /\ storedRatings = <<>>
  /\ failingSchools = {}
  /\ batchRun = <<>>

\* The science elements as school.html ships them: no score written, the
\* breakdown item hidden.
ScienceUntouched == [scoreText |-> "", itemShown |-> FALSE]

PageIdle ==
  /\ scienceDom = ScienceUntouched

\* No review request is being handled.
ReviewIdle ==
  /\ reviewRows = 0
  /\ reviewReq = <<>>

HelpfulIdle ==
  /\ reviewExists = FALSE
  /\ rewrittenRoutes = FALSE
  /\ voteRows = 0
  /\ helpfulCount = 0
  /\ helpfulReq = <<>>

\* No search and no page request is being handled.
HttpIdle ==
  /\ searchRequest = <<>>
  /\ searchAnswer = <<>>
  /\ routeRequest = <<>>
  /\ routeAnswer = <<>>

WebIdle ==
  /\ ReviewIdle
  /\ HelpfulIdle
  /\ HttpIdle

OpsIdle ==
  /\ BatchIdle
  /\ PageIdle
  /\ WebIdle

ApiIdle ==
  /\ dbRow = NoRow
  /\ response = NoRow
  /\ LaIdle

----------------------------------------------------------------------------
(* Bounds and input domains of the ranking *)

MaxSchools == 2

RatingValues == {Absent, Num(40), Num(90)}
CompletenessValues == {Absent, Num(20), Num(40), Num(100)}
OfstedValues == {Absent, Num(1), Num(2)}
NameValues == {"a", "b"}

\* The name of a school is read by the ranking only to order the schools that
\* have no stored rating, so only those take every name.
SchoolRows ==
  {r \in [overall_rating : RatingValues,
          rating_data_completeness : CompletenessValues,
          ofsted_rating : OfstedValues,
          name : NameValues] :
     Present(r.overall_rating) => r.name = "a"}

\* A collection of at most n schools; the urn of a school is its position in
\* the collection, so every school of a collection is a distinct object.
Collections(n) ==
  UNION {[1..k -> SchoolRows] : k \in 0..n}

WithUrn(rows) ==
  [i \in 1..Len(rows) |->
     [urn |-> i,
      name |-> rows[i].name,
      overall_rating |-> rows[i].overall_rating,
      rating_data_completeness |-> rows[i].rating_data_completeness,
      ofsted_rating |-> rows[i].ofsted_rating]]

----------------------------------------------------------------------------
(* city.js: categorizeAndRankSchools *)

\* Math.round(parseFloat(overall_rating)) on a rating kept in tenths.
RoundRating(r10) == (r10 + 5) \div 10

\* [9, 7, 5, 3].includes(Math.round(rating))
isLikelyOfstedOnly(r10) == RoundRating(r10) \in {9, 7, 5, 3}

\* The bucket the forEach of categorizeAndRankSchools pushes a school into.
TierOf(school, isScottish) ==
  IF Present(school.overall_rating)
    THEN IF AtLeast(school.rating_data_completeness, 100) THEN "complete"
         ELSE IF AtLeast(school.rating_data_completeness, 40) THEN "partial"
         ELSE IF isLikelyOfstedOnly(Val(school.overall_rating))
                 /\ ~Truthy(school.rating_data_completeness) THEN "ofstedOnly"
         ELSE "complete"
    ELSE IF Truthy(school.ofsted_rating) /\ ~isScottish THEN "ofstedOnly"
         ELSE "unrated"

\* tiers.<tier>: the schools pushed into one bucket, in input order.
Bucket(schools, isScottish, tier) ==
  SelectSeq(schools, LAMBDA s : TierOf(s, isScottish) = tier)

\* parseFloat(x.overall_rating) || 0
RatingOrZero(s) == IF Present(s.overall_rating) THEN Val(s.overall_rating) ELSE 0

\* sortByRating with the operands swapped: an ascending sort.
sortByRatingAscending(a, b) == RatingOrZero(a) - RatingOrZero(b)

\* sortByRating(a, b) < 0 <=> a sorts before b
sortByRating(a, b) == RatingOrZero(b) - RatingOrZero(a)

\* sortByOfsted with the operands swapped: worst band first.
sortByOfstedDescending(a, b) ==
  (IF Truthy(b.ofsted_rating) THEN Val(b.ofsted_rating) ELSE 5)
    - (IF Truthy(a.ofsted_rating) THEN Val(a.ofsted_rating) ELSE 5)

\* sortByOfsted: (a.ofsted_rating || 5) - (b.ofsted_rating || 5)
OfstedOrFive(s) == IF Truthy(s.ofsted_rating) THEN Val(s.ofsted_rating) ELSE 5
sortByOfsted(a, b) == OfstedOrFive(a) - OfstedOrFive(b)

\* The unrated tier ordered by Ofsted band instead of by name.
sortByBandNotName(a, b) ==
  (IF Truthy(a.ofsted_rating) THEN Val(a.ofsted_rating) ELSE 5)
    - (IF Truthy(b.ofsted_rating) THEN Val(b.ofsted_rating) ELSE 5)

\* (a.name || '').localeCompare(b.name || '') on the one-letter names used here
NameRank(n) == CASE n = "a" -> 1 [] n = "b" -> 2 [] OTHER -> 0
sortByName(a, b) == NameRank(a.name) - NameRank(b.name)

\* Array.prototype.sort with a consistent comparator: a stable sort (ECMAScript
\* 2019).  Element i of the array lands after every element that compares
\* before it and after every earlier element that compares equal to it.
ArraySort(seq, Cmp(_, _)) ==
  LET n == Len(seq)
      Before(j, i) == \/ Cmp(seq[j], seq[i]) < 0
                      \/ Cmp(seq[j], seq[i]) = 0 /\ j < i
      Pos(i) == 1 + Cardinality({j \in 1..n : j # i /\ Before(j, i)})
  IN  [k \in 1..n |-> seq[CHOOSE i \in 1..n : Pos(i) = k]]

\* The tiers spread in the wrong order: partial before complete.
ConcatTiersPartialFirst(complete, partial, ofstedOnly, unrated) ==
  partial \o complete \o ofstedOnly \o unrated

\* The last tier left out of the returned array.
ConcatTiersNoUnrated(complete, partial, ofstedOnly, unrated) ==
  complete \o partial \o ofstedOnly

\* [...tiers.complete, ...tiers.partial, ...tiers.ofstedOnly, ...tiers.unrated]
ConcatTiers(complete, partial, ofstedOnly, unrated) ==
  complete \o partial \o ofstedOnly \o unrated

\* A sort that is not stable: elements that compare equal come out in the
\* reverse of the order they went in.
ArraySortReversingTies(seq, Cmp(_, _)) ==
  LET n == Len(seq)
      Before(j, i) == \/ Cmp(seq[j], seq[i]) < 0
                      \/ Cmp(seq[j], seq[i]) = 0 /\ j > i
      Pos(i) == 1 + Cardinality({j \in 1..n : j # i /\ Before(j, i)})
  IN  [k \in 1..n |-> seq[CHOOSE i \in 1..n : Pos(i) = k]]

\* categorizeAndRankSchools on an engine whose sort is not stable.
categorizeAndRankSchoolsUnstable(schools, isScottish) ==
  ConcatTiers(ArraySortReversingTies(Bucket(schools, isScottish, "complete"), sortByRating),
              ArraySortReversingTies(Bucket(schools, isScottish, "partial"), sortByRating),
              ArraySortReversingTies(Bucket(schools, isScottish, "ofstedOnly"), sortByOfsted),
              ArraySortReversingTies(Bucket(schools, isScottish, "unrated"), sortByName))

categorizeAndRankSchools(schools, isScottish) ==
  ConcatTiers(ArraySort(Bucket(schools, isScottish, "complete"), sortByRating),
              ArraySort(Bucket(schools, isScottish, "partial"), sortByRating),
              ArraySort(Bucket(schools, isScottish, "ofstedOnly"), sortByOfsted),
              ArraySort(Bucket(schools, isScottish, "unrated"), sortByName))

----------------------------------------------------------------------------
(* school.js and its rewrite: the school page *)

\* The weight the stored rating_components carry when the server delivers
\* them (the England table of the rating pipeline).
DeliveredWeight(name) ==
  CASE name = "ofsted" -> 30
    [] name = "academic" -> 45
    [] name = "attendance" -> 25

Component(name) == [name |-> name, weight |-> DeliveredWeight(name)]

\* Every rating_components field the server can deliver: Arr(a) is the array
\* a of the components the school has data for, in the pipeline's order, and
\* Absent is a null field.
Arr(a) == <<a>>
ComponentArrays ==
  {Arr(SelectSeq(<<Component("ofsted"), Component("academic"), Component("attendance")>>,
                 LAMBDA c : c.name \in present)) :
     present \in SUBSET {"ofsted", "academic", "attendance"}}

\* safeParseJSON(raw, []) / (raw || []) on a rating_components field
safeParseJSON(raw) == IF raw = Absent THEN <<>> ELSE raw[1]

RECURSIVE SumWeights(_)
SumWeights(comps) ==
  IF comps = <<>> THEN 0 ELSE comps[1].weight + SumWeights(Tail(comps))

\* data.school of /api/schools/:urn: the stored completeness is the sum of the
\* weights of the stored components.
CountryKeys ==
  {k \in [country : {"", "England", "Scotland", "Wales"}, is_scotland : BOOLEAN] :
     k.is_scotland => k.country \in {"", "Scotland"}}

Payloads ==
  {[country |-> k.country, is_scotland |-> k.is_scotland, rating_components |-> comps,
    rating_data_completeness |-> Num(SumWeights(safeParseJSON(comps)))] :
     k \in CountryKeys,
     comps \in ComponentArrays \cup {Absent}}

HasComponent(comps, name) == \E i \in 1..Len(comps) : comps[i].name = name

\* forEach of adjustScottishRating: academic gets weight 60, attendance 40,
\* every other component is left as it is.
Reweighted(comps) ==
  [i \in 1..Len(comps) |->
     IF comps[i].name = "academic" THEN [comps[i] EXCEPT !.weight = 60]
     ELSE IF comps[i].name = "attendance" THEN [comps[i] EXCEPT !.weight = 40]
     ELSE comps[i]]

\* totalDataAvailable / (hasAcademic ? 60 : 0) + (hasAttendance ? 40 : 0)
ScottishCompleteness(comps) ==
  (IF HasComponent(comps, "academic") THEN 60 ELSE 0)
    + (IF HasComponent(comps, "attendance") THEN 40 ELSE 0)

\* school.js: adjustScottishRating(school)
adjustScottishRating(school) ==
  IF Present(school.rating_components)
    THEN [school EXCEPT
            !.rating_components = Arr(Reweighted(school.rating_components[1])),
            !.rating_data_completeness =
               Num(ScottishCompleteness(school.rating_components[1]))]
    ELSE school

\* the rewritten school.js: adjustScottishRating(school)
adjustScottishRatingRewrite(school) ==
  LET comps == safeParseJSON(school.rating_components)
  IN  [school EXCEPT
         !.rating_components = Arr(Reweighted(comps)),
         !.rating_data_completeness =
            IF HasComponent(comps, "academic") \/ HasComponent(comps, "attendance")
              THEN Num(ScottishCompleteness(comps))
              ELSE school.rating_data_completeness]

\* data.school.country === 'Scotland' || data.school.is_scotland
IsScottishPayload(school) == school.country = "Scotland" \/ school.is_scotland

InitSchool ==
  /\ pc = "fetch"
  /\ OpsIdle
  /\ payload \in Payloads
  /\ currentSchoolData = NoSchool
  /\ isScottishSchool = FALSE
  /\ RankIdle
  /\ CityIdle
  /\ ApiIdle

\* school.js loadSchoolData, from the answer of the fetch to the await of
\* loadPerformanceData: globals, Scottish adjustment, updateSchoolDisplay.
LoadSchoolData ==
  /\ pc = "fetch"
  /\ isScottishSchool' = IsScottishPayload(payload)
  /\ currentSchoolData' = IF IsScottishPayload(payload)
                            THEN adjustScottishRating(payload)
                            ELSE payload
  /\ pc' = "performance"
  /\ UNCHANGED <<payload, rankVars, cityVars, apiVars, opsVars>>

\* school.js loadSchoolData: the performance answer (or its error) arrives.
PerformanceLoaded ==
  /\ pc = "performance"
  /\ pc' = "nearby"
  /\ UNCHANGED <<schoolVars, rankVars, cityVars, apiVars, opsVars>>

\* school.js loadSchoolData: the nearby answer (or its error) arrives and the
\* schoolDataLoaded event is dispatched.
NearbyLoaded ==
  /\ pc = "nearby"
  /\ pc' = "dispatched"
  /\ UNCHANGED <<schoolVars, rankVars, cityVars, apiVars, opsVars>>

\* the rewritten loadSchoolData: normalise rating_components, Scottish
\* adjustment, display, and the event dispatched in the same turn.
LoadSchoolDataRewrite ==
  /\ pc = "fetch"
  /\ isScottishSchool' = IsScottishPayload(payload)
  /\ LET s == [payload EXCEPT
                 !.rating_components = Arr(safeParseJSON(payload.rating_components))]
     IN  currentSchoolData' = IF IsScottishPayload(payload)
                                THEN adjustScottishRatingRewrite(s)
                                ELSE s
  /\ pc' = "dispatched"
  /\ UNCHANGED <<payload, rankVars, cityVars, apiVars, opsVars>>

\* either loadSchoolData: the fetch or the payload fails, the catch shows an
\* error title and nothing is stored.
LoadFailed ==
  /\ pc = "fetch"
  /\ pc' = "failed"
  /\ UNCHANGED <<schoolVars, rankVars, cityVars, apiVars, opsVars>>

NextSchool ==
  \/ LoadSchoolData
  \/ PerformanceLoaded
  \/ NearbyLoaded
  \/ LoadSchoolDataRewrite
  \/ LoadFailed

SpecSchool == InitSchool /\ [][NextSchool]_vars

----------------------------------------------------------------------------
(* The server: the overall rating the JSON handlers expose *)

\* The weight of each metric in the stored completeness of a school (the
\* England table of the rating pipeline that fills uk_schools).
StoredCompleteness(row) ==
  (IF Present(row.ofsted) THEN DeliveredWeight("ofsted") ELSE 0)
    + (IF row.academic THEN DeliveredWeight("academic") ELSE 0)
    + (IF row.attendance THEN DeliveredWeight("attendance") ELSE 0)

\* The minimum-data threshold of the rating pipeline.
MinCompleteness == 50

StoredRatingValues == {Num(10), Num(65), Num(100)}

\* The joined row of one school: its latest Ofsted band (overall_effectiveness),
\* whether it has academic and attendance figures, and the overall_rating the
\* batch stored: null below the threshold, a rating in [1, 10] otherwise.
\* uk_schools.country is the nation of the school; a school outside England
\* has no Ofsted inspection.
DbRows ==
  {r \in [ofsted : {Absent, Num(1), Num(2), Num(3), Num(4)},
          academic : BOOLEAN,
          attendance : BOOLEAN,
          stored_rating : StoredRatingValues \cup {Absent},
          country : {"England", "Scotland"}] :
     /\ Present(r.stored_rating) <=> StoredCompleteness(r) >= MinCompleteness
     /\ r.country # "England" => r.ofsted = Absent}

\* CASE WHEN overall_effectiveness = 1 THEN 9 ... ELSE 5 END, and the same
\* chain written as if / else if in the handler.
OfstedRating(band) ==
  IF band = Num(1) THEN Num(90)
  ELSE IF band = Num(2) THEN Num(70)
  ELSE IF band = Num(3) THEN Num(50)
  ELSE IF band = Num(4) THEN Num(30)
  ELSE Num(50)

\* x || 5
OrFive(x) == IF Truthy(x) THEN x ELSE Num(50)

\* x ? parseFloat(x) : null
FloatOrNull(x) == IF Truthy(x) THEN x ELSE Absent

\* COALESCE(s.overall_rating, 5.0)
CoalesceFive(x) == IF Present(x) THEN x ELSE Num(50)

\* schools.map of the local-authority summary:
\* ofsted_rating ? (1 -> 9, 2 -> 7, 3 -> 5, else 3) : 5
SummaryRating(band) ==
  IF Truthy(band)
    THEN IF band = Num(1) THEN Num(90)
         ELSE IF band = Num(2) THEN Num(70)
         ELSE IF band = Num(3) THEN Num(50)
         ELSE Num(30)
    ELSE Num(50)

Answer(route, rating) == [loaded |-> TRUE, route |-> route, overall_rating |-> rating]

\* ofstedCounts of the local-authority summary after the switch on
\* school.ofsted_rating has run for one school.
OfstedCounts(band) ==
  [outstanding |-> IF band = Num(1) THEN 1 ELSE 0,
   good |-> IF band = Num(2) THEN 1 ELSE 0,
   requiresImprovement |-> IF band = Num(3) THEN 1 ELSE 0,
   inadequate |-> IF band = Num(4) THEN 1 ELSE 0,
   notInspected |-> IF band \in {Num(1), Num(2), Num(3), Num(4)} THEN 0 ELSE 1]

\* res.json of the local-authority summary: the counters and the rating of
\* the listed school.
LaAnswer(rating, counts) ==
  [loaded |-> TRUE, route |-> "local-authority summary", overall_rating |-> rating,
   ofstedCounts |-> counts]

InitApi ==
  /\ pc = "request"
  /\ OpsIdle
  /\ dbRow \in {[loaded |-> TRUE, ofsted |-> r.ofsted, academic |-> r.academic,
                  attendance |-> r.attendance, stored_rating |-> r.stored_rating,
                  country |-> r.country] :
                   r \in DbRows}
  /\ response = NoRow
  /\ LaIdle
  /\ RankIdle
  /\ CityIdle
  /\ SchoolIdle

\* GET /api/schools/:urn, first version: the rating is the CASE of the query,
\* then `school.overall_rating || 5`.
GetSchoolJoined ==
  /\ pc = "request"
  /\ response' = Answer("schools/:urn joined", OrFive(OfstedRating(dbRow.ofsted)))
  /\ pc' = "answered"
  /\ UNCHANGED <<dbRow, laVars, rankVars, cityVars, schoolVars, opsVars>>

\* GET /api/schools/:urn, later versions: let overall_rating = 5 and the
\* if / else if chain on o.overall_effectiveness.
GetSchool ==
  /\ pc = "request"
  /\ response' = Answer("schools/:urn", OfstedRating(dbRow.ofsted))
  /\ pc' = "answered"
  /\ UNCHANGED <<dbRow, laVars, rankVars, cityVars, schoolVars, opsVars>>

\* GET /api/search: the stored rating, `? parseFloat(...) : null`.
GetSearch ==
  /\ pc = "request"
  /\ response' = Answer("search", FloatOrNull(dbRow.stored_rating))
  /\ pc' = "answered"
  /\ UNCHANGED <<dbRow, laVars, rankVars, cityVars, schoolVars, opsVars>>

\* GET /api/search, earlier version: the CASE of the query, then `|| 5`.
GetSearchOfstedOnly ==
  /\ pc = "request"
  /\ response' = Answer("search ofsted", OrFive(OfstedRating(dbRow.ofsted)))
  /\ pc' = "answered"
  /\ UNCHANGED <<dbRow, laVars, rankVars, cityVars, schoolVars, opsVars>>

\* GET /api/search/city/:city: COALESCE(s.overall_rating, 5.0), then
\* `? parseFloat(...) : null`.
GetSearchCity ==
  /\ pc = "request"
  /\ response' = Answer("search/city", FloatOrNull(CoalesceFive(dbRow.stored_rating)))
  /\ pc' = "answered"
  /\ UNCHANGED <<dbRow, laVars, rankVars, cityVars, schoolVars, opsVars>>

\* GET /api/local-authority/:laName/summary: the rating of each listed school.
GetLaSummary ==
  /\ pc = "request"
  /\ response' = LaAnswer(SummaryRating(dbRow.ofsted), OfstedCounts(dbRow.ofsted))
  /\ pc' = "answered"
  /\ UNCHANGED <<dbRow, laVars, rankVars, cityVars, schoolVars, opsVars>>

NextApi ==
  \/ GetSchoolJoined
  \/ GetSchool
  \/ GetSearch
  \/ GetSearchOfstedOnly
  \/ GetSearchCity
  \/ GetLaSummary

SpecApi == InitApi /\ [][NextApi]_vars

----------------------------------------------------------------------------
(* The server: the averages of the local-authority summary *)

MaxLaSchools == 2

\* A figure of a school row: null, zero or a positive percentage.
FigureValues == {Absent, Num(0), Num(51)}

LaSchoolRows ==
  [english_score : FigureValues,
   math_score : FigureValues,
   science_score : FigureValues,
   overall_absence_rate : FigureValues,
   fsm_percentage : FigureValues]

LaCollections(n) ==
  UNION {[1..k -> LaSchoolRows] : k \in 0..n}

\* if (school.english_score): a null is falsy; a number is falsy when it is 0;
\* a numeric string such as "0.00" is truthy.
FigureTruthy(x, asText) == Present(x) /\ (asText \/ Val(x) # 0)

\* englishScores, mathScores, ...: the values the forEach pushed, in order.
Collected(rows, field, asText) ==
  SelectSeq([i \in 1..Len(rows) |-> rows[i][field]],
            LAMBDA x : FigureTruthy(x, asText))

RECURSIVE SumOf(_)
SumOf(values) ==
  IF values = <<>> THEN 0 ELSE Val(values[1]) + SumOf(Tail(values))

\* avg = arr => arr.length ? (sum / arr.length).toFixed(1) : null, the
\* result in tenths.
avg(values) ==
  IF Len(values) = 0 THEN Absent
  ELSE Num((20 * SumOf(values) + Len(values)) \div (2 * Len(values)))

\* attendanceRates.push(100 - parseFloat(school.overall_absence_rate))
AttendanceOf(values) == [i \in 1..Len(values) |-> Num(100 - Val(values[i]))]

InitLa ==
  /\ pc = "request"
  /\ OpsIdle
  /\ laRows \in LaCollections(MaxLaSchools)
  /\ textColumns \in BOOLEAN
  /\ laSummary = NoRow
  /\ dbRow = NoRow
  /\ response = NoRow
  /\ RankIdle
  /\ CityIdle
  /\ SchoolIdle

\* GET /api/local-authority/:laName/summary: the forEach that collects the
\* figures and the averages of res.json.
GetLaAverages ==
  /\ pc = "request"
  /\ LET englishScores == Collected(laRows, "english_score", textColumns)
         mathScores == Collected(laRows, "math_score", textColumns)
         scienceScores == Collected(laRows, "science_score", textColumns)
         attendanceRates ==
           AttendanceOf(Collected(laRows, "overall_absence_rate", textColumns))
         fsmPercentages == Collected(laRows, "fsm_percentage", textColumns)
     IN  laSummary' = [loaded |-> TRUE,
                       counted |-> [english_score |-> Len(englishScores),
                                    math_score |-> Len(mathScores),
                                    science_score |-> Len(scienceScores),
                                    overall_absence_rate |-> Len(attendanceRates),
                                    fsm_percentage |-> Len(fsmPercentages)],
                       avgEnglish |-> avg(englishScores),
                       avgMaths |-> avg(mathScores),
                       avgScience |-> avg(scienceScores),
                       avgAttendance |-> avg(attendanceRates),
                       avgFSM |-> avg(fsmPercentages)]
  /\ pc' = "answered"
  /\ UNCHANGED <<laRows, textColumns, dbRow, response, rankVars, cityVars, schoolVars, opsVars>>

\* The query throws: the catch answers status 500 and no summary.
LaQueryFailed ==
  /\ pc = "request"
  /\ pc' = "failed"
  /\ UNCHANGED <<apiVars, rankVars, cityVars, schoolVars, opsVars>>

NextLa ==
  \/ GetLaAverages
  \/ LaQueryFailed

SpecLa == InitLa /\ [][NextLa]_vars

----------------------------------------------------------------------------
(* city.js: the city page *)

MaxCitySchools == 2

CityRatingValues == {Absent, Num(40)}
CityOfstedValues == {Absent, Num(1)}
PhaseValues == {"Primary", "Secondary"}
CountryValues == {"", "England", "Scotland", "Wales"}

\* A school as the server holds it.  /api/search returns the rating, the Ofsted
\* band and the phase (it selects no rating_data_completeness);
\* /api/schools/:urn returns country and is_scotland ("" is a missing country).
CitySchoolRows ==
  {r \in [overall_rating : CityRatingValues,
          ofsted_rating : CityOfstedValues,
          phase_of_education : PhaseValues,
          country : CountryValues,
          is_scotland : BOOLEAN] :
     r.is_scotland => r.country \in {"", "Scotland"}}

CityCollections(n) ==
  UNION {[1..k -> CitySchoolRows] : k \in 0..n}

CityWithUrn(rows) ==
  [i \in 1..Len(rows) |->
     [urn |-> i,
      name |-> "a",
      overall_rating |-> rows[i].overall_rating,
      rating_data_completeness |-> Absent,
      ofsted_rating |-> rows[i].ofsted_rating,
      phase_of_education |-> rows[i].phase_of_education,
      country |-> rows[i].country,
      is_scotland |-> rows[i].is_scotland]]

\* getCityCountry with the fetch answered: data.school?.country || 'England'
getCityCountry(schools) ==
  IF Len(schools) > 0 /\ schools[1].country # "" THEN schools[1].country
  ELSE "England"

\* The vocabulary terms of classify() that a phase text contains once
\* lower-cased (type_of_establishment and establishment_group are empty here).
TermsIn(text) ==
  CASE text = "Primary" -> {"primary"}
    [] text = "Secondary" -> {"secondary"}
    [] text = "All-through" -> {"all-through"}
    [] text = "Special" -> {"special"}
    [] text = "Middle deemed secondary" -> {"middle", "secondary"}
    [] OTHER -> {}

\* classify(school) of processSchoolsData, in the order of its tests.
classify(school) ==
  LET terms == TermsIn(school.phase_of_education)
      contains(term) == term \in terms
  IN  IF terms = {} THEN "none"
      ELSE IF contains("special") \/ contains("sen") THEN "special"
      ELSE IF contains("all-through") \/ contains("all through")
              \/ contains("primary and secondary") \/ contains("through school")
        THEN "all-through"
      ELSE IF contains("post-primary") \/ contains("post primary") THEN "secondary"
      ELSE IF \E term \in {"primary", "infant", "junior", "first school", "first ", "nursery",
                            "preparatory", "prep", "elementary", "lower school"} :
                contains(term)
        THEN "primary"
      ELSE IF \E term \in {"secondary", "middle", "high", "upper", "senior", "academy",
                            "grammar", "comprehensive", "college", "post-16", "post 16"} :
                contains(term)
        THEN "secondary"
      ELSE IF \E term \in {"sixth", "six form", "sixthform", "further education"} :
                contains(term)
        THEN "sixth"
      ELSE "none"

\* cityData.schoolsByPhase.primary / .secondary as processSchoolsData fills them.
PrimaryOf(schools) ==
  SelectSeq(schools, LAMBDA s : classify(s) \in {"primary", "all-through"})
\* A secondary list that leaves the all-through schools to the primary list.
SecondaryOnlyOf(schools) ==
  SelectSeq(schools, LAMBDA s : classify(s) = "secondary")
SecondaryOf(schools) ==
  SelectSeq(schools, LAMBDA s : classify(s) \in {"secondary", "all-through"})

\* The phase part of processSchoolsData: both lists, and the two counters
\* that the loop increments with each push (the #primaryCount and
\* #secondaryCount texts of the page).
processSchoolsData(data) ==
  [data EXCEPT !.primary = PrimaryOf(data.schools),
               !.secondary = SecondaryOf(data.schools),
               !.primaryCount = Len(PrimaryOf(data.schools)),
               !.secondaryCount = Len(SecondaryOf(data.schools))]

\* showMax of renderTopSchools
ShowMax == 5

\* Slice that keeps the last entries instead of the first.
SliceFromEnd(seq, n) ==
  SubSeq(seq, IF Len(seq) < n THEN 1 ELSE Len(seq) - n + 1, Len(seq))

\* rankedSchools.slice(0, showMax)
Slice(seq, n) == SubSeq(seq, 1, IF Len(seq) < n THEN Len(seq) ELSE n)

InitCity ==
  /\ pc = "load"
  /\ OpsIdle
  /\ searchRows \in {CityWithUrn(rows) : rows \in CityCollections(MaxCitySchools)}
  /\ cityData = InitialCityData
  /\ countryLookup = "none"
  /\ topPrimary = <<>>
  /\ topSecondary = <<>>
  /\ ListIdle
  /\ RankIdle
  /\ SchoolIdle
  /\ ApiIdle

\* loadCitySchools up to its first await: the search answers with the schools.
SearchAnswered ==
  /\ pc = "load"
  /\ cityData' = [cityData EXCEPT !.schools = searchRows]
  /\ pc' = "country"
  /\ UNCHANGED <<searchRows, countryLookup, topPrimary, topSecondary, listVars, rankVars, schoolVars, apiVars, opsVars>>

\* loadCitySchools: the search fails or answers without success; the catch logs.
SearchFailed ==
  /\ pc = "load"
  /\ pc' = "done"
  /\ UNCHANGED <<cityVars, rankVars, schoolVars, apiVars, opsVars>>

\* loadCitySchools from the answer of getCityCountry to the await of
\* renderTopSchools: the country flags, then processSchoolsData.
CountryKnown(ok) ==
  /\ pc = "country"
  /\ LET country == IF ok THEN getCityCountry(cityData.schools) ELSE "England"
     IN  cityData' = processSchoolsData(
                       [cityData EXCEPT
                          !.country = country,
                          !.isNonEngland = (country # "England"),
                          !.isScottish = (country = "Scotland")])
  /\ countryLookup' = IF Len(cityData.schools) = 0 THEN "none"
                      ELSE IF ok THEN "ok" ELSE "failed"
  /\ pc' = "primary"
  /\ UNCHANGED <<searchRows, topPrimary, topSecondary, listVars, rankVars, schoolVars, apiVars, opsVars>>

\* renderSchoolList('primarySchools', ...) up to its await: rank and slice.
RenderPrimary ==
  /\ pc = "primary"
  /\ topPrimary' = Slice(categorizeAndRankSchools(cityData.primary, cityData.isScottish),
                         ShowMax)
  /\ pc' = "secondary"
  /\ UNCHANGED <<searchRows, cityData, countryLookup, topSecondary, listVars, rankVars, schoolVars, apiVars, opsVars>>

\* renderSchoolList('secondarySchools', ...) up to its await: rank and slice.
RenderSecondary ==
  /\ pc = "secondary"
  /\ topSecondary' = Slice(categorizeAndRankSchools(cityData.secondary, cityData.isScottish),
                           ShowMax)
  /\ pc' = "done"
  /\ UNCHANGED <<searchRows, cityData, countryLookup, topPrimary, listVars, rankVars, schoolVars, apiVars, opsVars>>

NextCity ==
  \/ SearchAnswered
  \/ SearchFailed
  \/ \E ok \in BOOLEAN : CountryKnown(ok)
  \/ RenderPrimary
  \/ RenderSecondary

SpecCity == InitCity /\ [][NextCity]_vars

----------------------------------------------------------------------------
(* city.js: renderSchoolList, one call *)

MaxListSchools == 6

\* The schools of a phase list as /api/search delivered them: a stored rating
\* or none (the answer carries no rating_data_completeness).
ListRatingValues == {Absent, Num(40), Num(90)}

ListCollections(n) ==
  UNION {[1..k -> ListRatingValues] : k \in 0..n}

ListWithUrn(ratings) ==
  [i \in 1..Len(ratings) |->
     [urn |-> i,
      name |-> "a",
      overall_rating |-> ratings[i],
      rating_data_completeness |-> Absent,
      ofsted_rating |-> Absent]]

\* What one fetch of /api/schools/:urn ends as: null (not ok, or rejected), an
\* answer whose school has no overall_rating, or an answer with a rating.
DetailOutcomes == {"failed", "unrated", "rated"}

\* The rating and completeness of a detail answer that carries a rating (the
\* handler returns no rating_data_completeness).
DetailRating == Num(70)

\* The callback of topSchools.map((s, i) => ...): the entry with the rating of
\* the detail answer, or the entry itself.
syncRating(s, d) ==
  IF d = "rated"
    THEN [s EXCEPT !.overall_rating = DetailRating,
                   !.rating_data_completeness = Absent]
    ELSE s

InitList ==
  /\ pc = "render"
  /\ OpsIdle
  /\ listArg \in {ListWithUrn(r) : r \in ListCollections(MaxListSchools)}
  /\ hasContainer \in BOOLEAN
  /\ topSchools = <<>>
  /\ listItems = <<>>
  /\ searchRows = <<>>
  /\ cityData = InitialCityData
  /\ countryLookup = "none"
  /\ topPrimary = <<>>
  /\ topSecondary = <<>>
  /\ RankIdle
  /\ SchoolIdle
  /\ ApiIdle

\* renderSchoolList returns early: no container, or an empty list (the
\* container then shows "No schools found in this category").
RenderNothing ==
  /\ pc = "render"
  /\ ~hasContainer \/ Len(listArg) = 0
  /\ pc' = "done"
  /\ UNCHANGED <<cityVars, rankVars, schoolVars, apiVars, opsVars>>

\* renderSchoolList up to the await of Promise.all: rank and slice.
RankAndSlice ==
  /\ pc = "render"
  /\ hasContainer /\ Len(listArg) > 0
  /\ topSchools' = Slice(categorizeAndRankSchools(listArg, cityData.isScottish), ShowMax)
  /\ pc' = "sync"
  /\ UNCHANGED <<listArg, hasContainer, listItems, searchRows, cityData, countryLookup,
                 topPrimary, topSecondary, rankVars, schoolVars, apiVars, opsVars>>

\* renderSchoolList from the answer of Promise.all to container.innerHTML:
\* every fetch has ended one way or another.
DetailsArrived ==
  /\ pc = "sync"
  /\ \E details \in [1..Len(topSchools) -> DetailOutcomes] :
       listItems' = [i \in 1..Len(topSchools) |-> syncRating(topSchools[i], details[i])]
  /\ pc' = "done"
  /\ UNCHANGED <<listArg, hasContainer, topSchools, searchRows, cityData, countryLookup,
                 topPrimary, topSecondary, rankVars, schoolVars, apiVars, opsVars>>

NextList ==
  \/ RenderNothing
  \/ RankAndSlice
  \/ DetailsArrived

SpecList == InitList /\ [][NextList]_vars

-----------------------------------------------------------------------------
(* SpecPhase: processSchoolsData over collections of every phase text *)

MaxPhaseSchools == 3

\* phase_of_education texts, one for each outcome of classify ("" and a text
\* with no vocabulary term classify as nothing).
PhaseTexts ==
  {"", "Not applicable", "Primary", "Secondary", "All-through", "Special",
   "Middle deemed secondary"}

PhaseCollections(n) ==
  UNION {[1..k -> [phase_of_education : PhaseTexts]] : k \in 0..n}

PhaseWithUrn(rows) ==
  [i \in 1..Len(rows) |->
     [urn |-> i, phase_of_education |-> rows[i].phase_of_education]]

\* cityData.schools = data.schools || [] has been assigned; processSchoolsData
\* is about to run.
InitPhase ==
  /\ pc = "process"
  /\ OpsIdle
  /\ cityData \in {[InitialCityData EXCEPT !.schools = PhaseWithUrn(r)] :
                      r \in PhaseCollections(MaxPhaseSchools)}
  /\ searchRows = <<>>
  /\ countryLookup = "none"
  /\ topPrimary = <<>>
  /\ topSecondary = <<>>
  /\ ListIdle
  /\ RankIdle
  /\ SchoolIdle
  /\ ApiIdle

ProcessSchoolsData ==
  /\ pc = "process"
  /\ cityData' = processSchoolsData(cityData)
  /\ pc' = "processed"
  /\ UNCHANGED <<searchRows, countryLookup, topPrimary, topSecondary, listVars,
                 rankVars, schoolVars, apiVars, opsVars>>

NextPhase ==
  ProcessSchoolsData

SpecPhase == InitPhase /\ [][NextPhase]_vars

-----------------------------------------------------------------------------
(* SpecBatch: runs of scripts/updateRatings.js against one database *)

MaxBatchSchools == 2

BatchSchools == 1..MaxBatchSchools

\* The script is started by hand or by a scheduler; nothing in it keeps a
\* second process from starting while the first is running.
BatchRuns == {1, 2}

\* overall_rating IS NULL ("null"), rating_updated_at older than 30 days
\* ("stale"), or neither ("fresh").
RatingStates == {"null", "stale", "fresh"}

\* WHERE overall_rating IS NULL OR rating_updated_at < NOW() - INTERVAL '30 days'
NeedsUpdate(ratings) ==
  {s \in BatchSchools : ratings[s] \in {"null", "stale"}}

NotStarted == [pc |-> "start", selected |-> {}, computed |-> {}]

InitBatch ==
  /\ pc = "batch"
  /\ storedRatings \in [BatchSchools -> RatingStates]
  /\ failingSchools \in SUBSET BatchSchools
  /\ batchRun = [r \in BatchRuns |-> NotStarted]
  /\ PageIdle
  /\ WebIdle
  /\ RankIdle
  /\ CityIdle
  /\ SchoolIdle
  /\ ApiIdle

\* The SELECT COUNT(*) of the schools needing an update, and its log line.
CountStale(r) ==
  /\ batchRun[r].pc = "start"
  /\ batchRun' = [batchRun EXCEPT ![r].pc = "counted"]
  /\ UNCHANGED <<pc, storedRatings, failingSchools, rankVars, cityVars, schoolVars, apiVars,
                 pageVars, webVars>>

\* await query('SELECT * FROM batch_calculate_school_ratings()') is sent: the
\* function selects the schools whose rating is null or stale.
CallBatch(r) ==
  /\ batchRun[r].pc = "counted"
  /\ batchRun' = [batchRun EXCEPT ![r].pc = "running",
                                  ![r].selected = NeedsUpdate(storedRatings)]
  /\ UNCHANGED <<pc, storedRatings, failingSchools, rankVars, cityVars, schoolVars, apiVars,
                 pageVars, webVars>>

\* The function recomputes one selected school.
RecomputeSchool(r, s) ==
  /\ batchRun[r].pc = "running"
  /\ s \in batchRun[r].selected \ batchRun[r].computed
  /\ s \notin failingSchools
  /\ batchRun' = [batchRun EXCEPT ![r].computed = @ \cup {s}]
  /\ UNCHANGED <<pc, storedRatings, failingSchools, rankVars, cityVars, schoolVars, apiVars,
                 pageVars, webVars>>

\* The recomputation of a school raises an error: the statement is rolled
\* back, the awaited query rejects, and updateStaleRatings, which has no
\* try / catch, rejects with it.
RecomputeFails(r, s) ==
  /\ batchRun[r].pc = "running"
  /\ s \in batchRun[r].selected \ batchRun[r].computed
  /\ s \in failingSchools
  /\ batchRun' = [batchRun EXCEPT ![r].pc = "rejected", ![r].computed = {}]
  /\ UNCHANGED <<pc, storedRatings, failingSchools, rankVars, cityVars, schoolVars, apiVars,
                 pageVars, webVars>>

\* The statement ends: the ratings of the selected schools are persisted and
\* the script logs 'Ratings updated successfully'.
BatchDone(r) ==
  /\ batchRun[r].pc = "running"
  /\ batchRun[r].computed = batchRun[r].selected
  /\ storedRatings' = [s \in BatchSchools |->
                         IF s \in batchRun[r].selected THEN "fresh" ELSE storedRatings[s]]
  /\ batchRun' = [batchRun EXCEPT ![r].pc = "done"]
  /\ UNCHANGED <<pc, failingSchools, rankVars, cityVars, schoolVars, apiVars,
                 pageVars, webVars>>

NextBatch ==
  \E r \in BatchRuns :
    \/ CountStale(r)
    \/ CallBatch(r)
    \/ \E s \in BatchSchools : RecomputeSchool(r, s)
    \/ \E s \in BatchSchools : RecomputeFails(r, s)
    \/ BatchDone(r)

SpecBatch == InitBatch /\ [][NextBatch]_vars

-----------------------------------------------------------------------------
(* SpecScience: the science subject on the three school-page scripts *)

\* data.school as far as the science subject reads it: the country keys,
\* test_scores.science.score, whether the school is rated, and whether the
\* academic component carries details.science.
SciencePayloads ==
  {[country |-> k.country, is_scotland |-> k.is_scotland,
    science_score |-> s, rated |-> r, details_science |-> d] :
     k \in CountryKeys, s \in {Absent, Num(62)}, r \in BOOLEAN, d \in BOOLEAN}

InitScience ==
  /\ pc = "fetch"
  /\ payload \in SciencePayloads
  /\ currentSchoolData = NoSchool
  /\ isScottishSchool = FALSE
  /\ scienceDom = ScienceUntouched
  /\ BatchIdle
  /\ WebIdle
  /\ RankIdle
  /\ CityIdle
  /\ ApiIdle

\* school.js updateTestScores: the science row.
updateTestScores(school, scottish) ==
  IF ~scottish /\ Truthy(school.science_score) THEN "percent" ELSE "-"

\* school.js window.updateRatingDisplay: the science breakdown item.
updateRatingDisplayGuarded(school) ==
  school.rated /\ ~IsScottishPayload(school) /\ school.details_science

\* school.js renderTestScores: the science row.
renderTestScores(school) ==
  IF Present(school.science_score) THEN "percent" ELSE "N/A"

\* school.js function updateRatingDisplay: the science breakdown item.
updateRatingDisplay(school) ==
  school.rated /\ school.details_science

\* the rewritten school.js: applyRow('science', ...) of updateTestScores; for
\* a Scottish school the row is hidden and nothing is written.
updateTestScoresRewrite(school, scottish) ==
  IF scottish THEN ""
  ELSE IF Present(school.science_score) THEN "percent" ELSE "-"

\* the rewritten school.js: window.updateRatingDisplay.
updateRatingDisplayRewrite(school) ==
  ~IsScottishPayload(school) /\ school.details_science

\* school.js loadSchoolData: updateSchoolDisplay, then the listeners of
\* schoolDataLoaded.
LoadSchoolDataScience ==
  /\ pc = "fetch"
  /\ isScottishSchool' = IsScottishPayload(payload)
  /\ currentSchoolData' = payload
  /\ scienceDom' = [scoreText |-> updateTestScores(payload, IsScottishPayload(payload)),
                    itemShown |-> updateRatingDisplayGuarded(payload)]
  /\ pc' = "shown"
  /\ UNCHANGED <<payload, rankVars, cityVars, apiVars, batchVars, webVars>>

\* school.js loadAll: updateRatingDisplay(s), then renderTestScores(s).
LoadAll ==
  /\ pc = "fetch"
  /\ currentSchoolData' = payload
  /\ scienceDom' = [scoreText |-> renderTestScores(payload),
                    itemShown |-> updateRatingDisplay(payload)]
  /\ pc' = "shownAll"
  /\ UNCHANGED <<payload, isScottishSchool, rankVars, cityVars, apiVars, batchVars, webVars>>

\* the rewritten school.js: loadSchoolData.
LoadSchoolDataRewriteScience ==
  /\ pc = "fetch"
  /\ isScottishSchool' = IsScottishPayload(payload)
  /\ currentSchoolData' = payload
  /\ scienceDom' = [scoreText |-> updateTestScoresRewrite(payload, IsScottishPayload(payload)),
                    itemShown |-> updateRatingDisplayRewrite(payload)]
  /\ pc' = "shownRewrite"
  /\ UNCHANGED <<payload, rankVars, cityVars, apiVars, batchVars, webVars>>

\* Leaving the page: the next school is fetched into a fresh document.
NextSchoolPage ==
  /\ pc \in {"shown", "shownAll", "shownRewrite"}
  /\ pc' = "left"
  /\ UNCHANGED <<schoolVars, pageVars, rankVars, cityVars, apiVars, batchVars, webVars>>

NextScience ==
  \/ LoadSchoolDataScience
  \/ LoadAll
  \/ LoadSchoolDataRewriteScience
  \/ NextSchoolPage

SpecScience == InitScience /\ [][NextScience]_vars

-----------------------------------------------------------------------------
(* SpecReview: POST /schools/:urn/reviews, submissions of one IP for one
   school, all within 24 hours, handled concurrently *)

MaxSubmissions == 3

Submissions == 1..MaxSubmissions

InitReview ==
  /\ pc = "reviews"
  /\ reviewRows \in {0, 1}
  /\ reviewReq = [h \in Submissions |-> "received"]
  /\ HelpfulIdle
  /\ HttpIdle
  /\ BatchIdle
  /\ PageIdle
  /\ RankIdle
  /\ CityIdle
  /\ SchoolIdle
  /\ ApiIdle

\* The rate-limit SELECT COUNT(*) answers: 429 when a row of the last 24
\* hours exists, otherwise the handler goes on to the insert.
CheckRateLimit(h) ==
  /\ reviewReq[h] = "received"
  /\ reviewReq' = [reviewReq EXCEPT ![h] = IF reviewRows > 0 THEN "429" ELSE "checked"]
  /\ UNCHANGED <<pc, reviewRows, helpfulVars, batchVars, pageVars, httpVars, rankVars, cityVars,
                 schoolVars, apiVars>>

\* The INSERT INTO uk_school_reviews answers: 201.
InsertReview(h) ==
  /\ reviewReq[h] = "checked"
  /\ reviewRows' = reviewRows + 1
  /\ reviewReq' = [reviewReq EXCEPT ![h] = "201"]
  /\ UNCHANGED <<pc, helpfulVars, batchVars, pageVars, httpVars, rankVars, cityVars, schoolVars,
                 apiVars>>

\* A query rejects: the catch answers 500.
ReviewQueryFails(h) ==
  /\ reviewReq[h] \in {"received", "checked"}
  /\ reviewReq' = [reviewReq EXCEPT ![h] = "500"]
  /\ UNCHANGED <<pc, reviewRows, helpfulVars, batchVars, pageVars, httpVars, rankVars, cityVars,
                 schoolVars, apiVars>>

NextReview ==
  \E h \in Submissions :
    \/ CheckRateLimit(h)
    \/ InsertReview(h)
    \/ ReviewQueryFails(h)

SpecReview == InitReview /\ [][NextReview]_vars

-----------------------------------------------------------------------------
(* SpecHelpful: POST /reviews/:reviewId/helpful, requests of one IP for one
   review id, handled concurrently *)

HelpfulRequests == {1, 2}

Received == [pc |-> "received", onOneClient |-> FALSE, vote |-> FALSE, count |-> FALSE]

\* The row of the review, if it exists, counts the votes stored so far.
InitHelpful ==
  /\ pc = "helpful"
  /\ reviewExists \in BOOLEAN
  /\ rewrittenRoutes \in BOOLEAN
  /\ voteRows \in {0, 1}
  /\ reviewExists = FALSE => voteRows = 0
  /\ helpfulCount = voteRows
  /\ helpfulReq = [h \in HelpfulRequests |-> Received]
  /\ ReviewIdle
  /\ HttpIdle
  /\ BatchIdle
  /\ PageIdle
  /\ RankIdle
  /\ CityIdle
  /\ SchoolIdle
  /\ ApiIdle

\* The SELECT on uk_review_helpful_votes answers: 400 when a row exists.
CheckVoted(h) ==
  /\ helpfulReq[h].pc = "received"
  /\ helpfulReq' = [helpfulReq EXCEPT ![h].pc = IF voteRows > 0 THEN "400" ELSE "checked"]
  /\ UNCHANGED <<pc, reviewExists, rewrittenRoutes, voteRows, helpfulCount, reviewVars,
                 batchVars, pageVars, httpVars, rankVars, cityVars, schoolVars, apiVars>>

\* pool.query('BEGIN'): every pool.query takes whichever client of the pool
\* is free, so the statements that follow either all run on the client that
\* ran BEGIN (one transaction) or run elsewhere and commit one by one.
BeginVote(h, one) ==
  /\ helpfulReq[h].pc = "checked"
  /\ helpfulReq' = [helpfulReq EXCEPT ![h].pc = "begun", ![h].onOneClient = one]
  /\ UNCHANGED <<pc, reviewExists, rewrittenRoutes, voteRows, helpfulCount, reviewVars,
                 batchVars, pageVars, httpVars, rankVars, cityVars, schoolVars, apiVars>>

\* INSERT INTO uk_review_helpful_votes
InsertVote(h) ==
  /\ helpfulReq[h].pc = "begun"
  /\ helpfulReq' = [helpfulReq EXCEPT ![h].pc = "inserted",
                                      ![h].vote = helpfulReq[h].onOneClient]
  /\ voteRows' = IF helpfulReq[h].onOneClient THEN voteRows ELSE voteRows + 1
  /\ UNCHANGED <<pc, reviewExists, rewrittenRoutes, helpfulCount, reviewVars,
                 batchVars, pageVars, httpVars, rankVars, cityVars, schoolVars, apiVars>>

\* UPDATE uk_school_reviews SET helpful_count = helpful_count + 1 WHERE id = $1:
\* no row is updated when the review does not exist.
UpdateCount(h) ==
  /\ helpfulReq[h].pc = "inserted"
  /\ helpfulReq' = [helpfulReq EXCEPT ![h].pc = "updated",
                                      ![h].count = reviewExists /\ helpfulReq[h].onOneClient]
  /\ helpfulCount' = IF reviewExists /\ ~helpfulReq[h].onOneClient
                        THEN helpfulCount + 1 ELSE helpfulCount
  /\ UNCHANGED <<pc, reviewExists, rewrittenRoutes, voteRows, reviewVars,
                 batchVars, pageVars, httpVars, rankVars, cityVars, schoolVars, apiVars>>

\* COMMIT, then the answer: the rewritten routes answer 404 when the UPDATE
\* returned no row, the first routes always answer success.
CommitVote(h) ==
  /\ helpfulReq[h].pc = "updated"
  /\ voteRows' = IF helpfulReq[h].vote THEN voteRows + 1 ELSE voteRows
  /\ helpfulCount' = IF helpfulReq[h].count THEN helpfulCount + 1 ELSE helpfulCount
  /\ helpfulReq' = [helpfulReq EXCEPT
                      ![h].pc = IF rewrittenRoutes /\ ~reviewExists THEN "404" ELSE "200",
                      ![h].vote = FALSE, ![h].count = FALSE]
  /\ UNCHANGED <<pc, reviewExists, rewrittenRoutes, reviewVars,
                 batchVars, pageVars, httpVars, rankVars, cityVars, schoolVars, apiVars>>

\* A query rejects (the check, BEGIN, the INSERT, the UPDATE or COMMIT): the
\* catch sends ROLLBACK, which undoes what the transaction holds, and answers 500.
VoteQueryFails(h) ==
  /\ helpfulReq[h].pc \in {"received", "checked", "begun", "inserted", "updated"}
  /\ helpfulReq' = [helpfulReq EXCEPT ![h].pc = "500", ![h].vote = FALSE, ![h].count = FALSE]
  /\ UNCHANGED <<pc, reviewExists, rewrittenRoutes, voteRows, helpfulCount, reviewVars,
                 batchVars, pageVars, httpVars, rankVars, cityVars, schoolVars, apiVars>>

NextHelpful ==
  \E h \in HelpfulRequests :
    \/ CheckVoted(h)
    \/ \E one \in BOOLEAN : BeginVote(h, one)
    \/ InsertVote(h)
    \/ UpdateCount(h)
    \/ CommitVote(h)
    \/ VoteQueryFails(h)

SpecHelpful == InitHelpful /\ [][NextHelpful]_vars

-----------------------------------------------------------------------------
(* SpecSearch: the result statement and the count statement of GET /api/search *)

\* type: the three named searches, 'all' (also the default), and a string
\* that is none of them.
SearchTypes == {"name", "postcode", "location", "all", "other"}

\* req.query: "" is a filter that was not given.
SearchRequests ==
  [q : {"a", "leeds"}, type : SearchTypes, phase : {"", "Primary"},
   ofsted : {"", "2"}, la : {"", "Leeds"}]

\* `%${q.trim()}%`
SearchTerm(q) == "%" \o q \o "%"

\* parseInt of a query string
ParseInt(text) == "int:" \o text

\* The columns the search term is matched against, by the if / else if chain
\* on type; the last else takes every other string.
SearchColumns(type) ==
  IF type = "name" THEN <<"name">>
  ELSE IF type = "postcode" THEN <<"postcode">>
  ELSE IF type = "location" THEN <<"town", "local_authority">>
  ELSE <<"name", "postcode", "town", "local_authority">>

\* The conditions on the search term: column i is compared with $i.
TermConditions(type) ==
  [i \in 1..Len(SearchColumns(type)) |->
     [column |-> SearchColumns(type)[i], placeholder |-> i]]

\* if (value) { paramCount++; sqlQuery += ` AND column = $${paramCount}`;
\* params.push(value) }: paramCount is the length of params.
AddFilter(stmt, given, column, value) ==
  IF given
    THEN [conds |-> Append(stmt.conds,
                           [column |-> column, placeholder |-> Len(stmt.params) + 1]),
          params |-> Append(stmt.params, value)]
    ELSE stmt

\* sqlQuery and params up to the ORDER BY.
ResultWhere(req) ==
  LET term == [conds |-> TermConditions(req.type),
               params |-> [i \in 1..Len(SearchColumns(req.type)) |-> SearchTerm(req.q)]]
      phase == AddFilter(term, req.phase # "", "phase_of_education", req.phase)
      ofsted == AddFilter(phase, req.ofsted # "", "overall_effectiveness",
                          ParseInt(req.ofsted))
  IN  AddFilter(ofsted, req.la # "", "local_authority", req.la)

\* LIMIT and OFFSET take the next two placeholders.
ResultQuery(req) ==
  [conds |-> ResultWhere(req).conds,
   params |-> ResultWhere(req).params \o <<ParseInt("20"), ParseInt("0")>>]

\* type === 'location' ? 2 : (type === 'all' ? 4 : 1)
CountParamOffset(type) ==
  IF type = "location" THEN 2 ELSE IF type = "all" THEN 4 ELSE 1

\* if (value) { countQuery += ` AND column = $${countParamOffset + 1}`;
\* countParamOffset++ }
AddCountFilter(stmt, given, column) ==
  IF given
    THEN [conds |-> Append(stmt.conds,
                           [column |-> column, placeholder |-> stmt.offset + 1]),
          offset |-> stmt.offset + 1]
    ELSE stmt

\* countQuery, and countParams = params.slice(0, -2).
CountQuery(req, params) ==
  LET term == [conds |-> TermConditions(req.type), offset |-> CountParamOffset(req.type)]
      phase == AddCountFilter(term, req.phase # "", "phase_of_education")
      ofsted == AddCountFilter(phase, req.ofsted # "", "overall_effectiveness")
      la == AddCountFilter(ofsted, req.la # "", "local_authority")
  IN  [conds |-> la.conds, params |-> SubSeq(params, 1, Len(params) - 2)]

InitSearch ==
  /\ pc = "search"
  /\ searchRequest \in SearchRequests
  /\ searchAnswer = <<>>
  /\ routeRequest = <<>>
  /\ routeAnswer = <<>>
  /\ ReviewIdle
  /\ HelpfulIdle
  /\ BatchIdle
  /\ PageIdle
  /\ RankIdle
  /\ CityIdle
  /\ SchoolIdle
  /\ ApiIdle

\* q.trim().length < 2: 400.
SearchRejected ==
  /\ pc = "search"
  /\ searchRequest.q = "a"
  /\ searchAnswer' = [status |-> 400]
  /\ pc' = "searched"
  /\ UNCHANGED <<searchRequest, routeRequest, routeAnswer, reviewVars, helpfulVars,
                 batchVars, pageVars, rankVars, cityVars, schoolVars, apiVars>>

\* Both statements are built and run; total is the count statement's row.
SearchCounted ==
  /\ pc = "search"
  /\ searchRequest.q # "a"
  /\ searchAnswer' = [status |-> 200,
                      result |-> ResultQuery(searchRequest),
                      count |-> CountQuery(searchRequest, ResultQuery(searchRequest).params)]
  /\ pc' = "searched"
  /\ UNCHANGED <<searchRequest, routeRequest, routeAnswer, reviewVars, helpfulVars,
                 batchVars, pageVars, rankVars, cityVars, schoolVars, apiVars>>

NextSearch ==
  \/ SearchRejected
  \/ SearchCounted

SpecSearch == InitSearch /\ [][NextSearch]_vars

-----------------------------------------------------------------------------
(* SpecRoute: a GET for /<first>/<identifier> through the page routes of the
   two server scripts *)

MaxIdentifierLen == 3

\* The characters of an identifier by class: a digit, a dash, anything else.
IdentifierChars == {"d", "-", "a"}

Identifiers ==
  UNION {[1..k -> IdentifierChars] : k \in 1..MaxIdentifierLen}

\* /^\d+(-.*)?$/.test(identifier)
LooksLikeUrn(identifier) ==
  \E k \in 1..Len(identifier) :
    /\ \A i \in 1..k : identifier[i] = "d"
    /\ k = Len(identifier) \/ identifier[k + 1] = "-"

FirstSegments ==
  {"api", "school", "local-authority", "terms", "london", "London", "atlantis"}

\* city.toLowerCase()
ToLowerCase(segment) == IF segment = "London" THEN "london" ELSE segment

\* ukCities, as far as the first segments above are in it.
ukCities == {"london"}

\* reserved2 of GET /:city/:identifier, as far as the first segments above
\* are in it.
reserved2 == {"api", "terms"}

\* reserved of GET /:city/:schoolIdentifier, likewise.
reserved == {"api"}

\* GET /:city/:identifier tests reserved.has(...), but the set it declares
\* is reserved2, and the const reserved of GET /:city is local to that
\* handler: the name is not in scope and the test throws a ReferenceError.
ReservedInScope == FALSE

\* GET /:city/:identifier
CityIdentifier(city, identifier) ==
  IF ~ReservedInScope THEN "throw"
  ELSE IF ToLowerCase(city) \in reserved THEN "next"
  ELSE IF ToLowerCase(city) \notin ukCities THEN "next"
  ELSE IF LooksLikeUrn(identifier) THEN "school.html"
  ELSE "local-authority.html"

\* GET /:city/:schoolIdentifier
CitySchoolIdentifier(city) ==
  IF ToLowerCase(city) \in reserved THEN "next"
  ELSE IF ToLowerCase(city) \notin ukCities THEN "next"
  ELSE "school.html"

\* The page routes a path of two segments meets, in the order the script
\* registers them (the API routers have passed an unknown /api path on).
RouteOrder(script) ==
  IF script = "part_001"
    THEN <<"localAuthority", "cityIdentifier", "school", "citySchoolIdentifier", "catchAll">>
    ELSE <<"school", "citySchoolIdentifier", "catchAll">>

Arrived(script) == [at |-> 1, status |-> 0, body |-> ""]

Sent(file) == [at |-> 0, status |-> 200, body |-> file]

NextRoute(answer) == [answer EXCEPT !.at = @ + 1]

At(route) ==
  /\ pc = "route"
  /\ routeAnswer.status = 0
  /\ RouteOrder(routeRequest.script)[routeAnswer.at] = route

InitRoute ==
  /\ pc = "route"
  /\ routeRequest \in [script : {"part_001", "server.js"}, city : FirstSegments,
                        identifier : Identifiers]
  /\ routeAnswer = Arrived(routeRequest.script)
  /\ searchRequest = <<>>
  /\ searchAnswer = <<>>
  /\ ReviewIdle
  /\ HelpfulIdle
  /\ BatchIdle
  /\ PageIdle
  /\ RankIdle
  /\ CityIdle
  /\ SchoolIdle
  /\ ApiIdle

\* app.get('/local-authority/:laSlug')
LocalAuthorityRoute ==
  /\ At("localAuthority")
  /\ routeAnswer' = IF routeRequest.city = "local-authority"
                       THEN Sent("local-authority.html")
                       ELSE NextRoute(routeAnswer)
  /\ UNCHANGED <<pc, routeRequest, searchRequest, searchAnswer, reviewVars, helpfulVars,
                 batchVars, pageVars, rankVars, cityVars, schoolVars, apiVars>>

\* app.get('/:city/:identifier'); a throw goes to the error middleware.
CityIdentifierRoute ==
  /\ At("cityIdentifier")
  /\ LET outcome == CityIdentifier(routeRequest.city, routeRequest.identifier)
     IN  routeAnswer' = IF outcome = "throw" THEN [routeAnswer EXCEPT !.status = -1]
                        ELSE IF outcome = "next" THEN NextRoute(routeAnswer)
                        ELSE Sent(outcome)
  /\ UNCHANGED <<pc, routeRequest, searchRequest, searchAnswer, reviewVars, helpfulVars,
                 batchVars, pageVars, rankVars, cityVars, schoolVars, apiVars>>

\* app.get('/school/:identifier')
SchoolRoute ==
  /\ At("school")
  /\ routeAnswer' = IF routeRequest.city = "school"
                       THEN Sent("school.html")
                       ELSE NextRoute(routeAnswer)
  /\ UNCHANGED <<pc, routeRequest, searchRequest, searchAnswer, reviewVars, helpfulVars,
                 batchVars, pageVars, rankVars, cityVars, schoolVars, apiVars>>

\* app.get('/:city/:schoolIdentifier')
CitySchoolIdentifierRoute ==
  /\ At("citySchoolIdentifier")
  /\ LET outcome == CitySchoolIdentifier(routeRequest.city)
     IN  routeAnswer' = IF outcome = "next" THEN NextRoute(routeAnswer) ELSE Sent(outcome)
  /\ UNCHANGED <<pc, routeRequest, searchRequest, searchAnswer, reviewVars, helpfulVars,
                 batchVars, pageVars, rankVars, cityVars, schoolVars, apiVars>>

\* app.get('*'): JSON 404 under /api, 'Not Found' otherwise.
CatchAll ==
  /\ At("catchAll")
  /\ routeAnswer' = [at |-> 0, status |-> 404,
                     body |-> IF routeRequest.city = "api" THEN "json" ELSE "Not Found"]
  /\ UNCHANGED <<pc, routeRequest, searchRequest, searchAnswer, reviewVars, helpfulVars,
                 batchVars, pageVars, rankVars, cityVars, schoolVars, apiVars>>

\* app.use((err, req, res, next) => ...): res.status(err.status || 500)
ErrorHandler ==
  /\ pc = "route"
  /\ routeAnswer.status = -1
  /\ routeAnswer' = [at |-> 0, status |-> 500, body |-> "json"]
  /\ UNCHANGED <<pc, routeRequest, searchRequest, searchAnswer, reviewVars, helpfulVars,
                 batchVars, pageVars, rankVars, cityVars, schoolVars, apiVars>>

NextRouting ==
  \/ LocalAuthorityRoute
  \/ CityIdentifierRoute
  \/ SchoolRoute
  \/ CitySchoolIdentifierRoute
  \/ CatchAll
  \/ ErrorHandler

SpecRoute == InitRoute /\ [][NextRouting]_vars

----------------------------------------------------------------------------
(* SpecRank: the ranking applied to every bounded collection *)

InitRank ==
  /\ pc = "call"
  /\ OpsIdle
  /\ schoolsArg \in {WithUrn(rows) : rows \in Collections(MaxSchools)}
  /\ isScottishFlag \in BOOLEAN
  /\ rankedOut = <<>>
  /\ rankedAgain = <<>>
  /\ CityIdle
  /\ SchoolIdle
  /\ ApiIdle

Rank ==
  /\ pc = "call"
  /\ rankedOut' = categorizeAndRankSchools(schoolsArg, isScottishFlag)
  /\ pc' = "returned"
  /\ UNCHANGED <<schoolsArg, isScottishFlag, rankedAgain, cityVars, schoolVars, apiVars, opsVars>>

\* A second call on the same input collection (a list is ranked again every
\* time renderSchoolList runs).
RankSameInput ==
  /\ pc = "returned"
  /\ rankedAgain' = categorizeAndRankSchools(schoolsArg, isScottishFlag)
  /\ pc' = "reranked"
  /\ UNCHANGED <<schoolsArg, isScottishFlag, rankedOut, cityVars, schoolVars, apiVars, opsVars>>

\* A second call on the array the first call returned.
RankOutput ==
  /\ pc = "returned"
  /\ rankedAgain' = categorizeAndRankSchools(rankedOut, isScottishFlag)
  /\ pc' = "rerankedOutput"
  /\ UNCHANGED <<schoolsArg, isScottishFlag, rankedOut, cityVars, schoolVars, apiVars, opsVars>>

NextRank ==
  \/ Rank
  \/ RankSameInput
  \/ RankOutput

SpecRank == InitRank /\ [][NextRank]_vars

----------------------------------------------------------------------------
(* Claims on the ranking, checked under SpecRank *)

\* Position of a tier in the fixed order complete, partial, ofsted-only, unrated.
TierOrder(tier) ==
  CASE tier = "complete" -> 1
    [] tier = "partial" -> 2
    [] tier = "ofstedOnly" -> 3
    [] tier = "unrated" -> 4

OutTier(i) == TierOf(rankedOut[i], isScottishFlag)

\* C1: in the returned sequence every complete-tier school precedes every
\* partial-tier school, every partial-tier school precedes every ofsted-only
\* school and every ofsted-only school precedes every unrated school, whatever
\* the overall_rating values are.
C1_TiersInFixedOrder ==
  pc = "returned" =>
    \A i, j \in 1..Len(rankedOut) :
      i < j => TierOrder(OutTier(i)) <= TierOrder(OutTier(j))

\* A complete-tier school rated 4.0 is returned ahead of a partial-tier school
\* rated 9.0 that came first in the input.
C1_Witness ==
  /\ pc = "returned"
  /\ Len(rankedOut) = 2
  /\ OutTier(1) = "complete" /\ rankedOut[1].overall_rating = Num(40)
  /\ OutTier(2) = "partial" /\ rankedOut[2].overall_rating = Num(90)
  /\ rankedOut[1].urn = 2

\* C2: a school is placed in the complete tier iff its completeness is >= 100
\* and in the partial tier iff 40 <= completeness < 100.
C2_TierIffCompleteness ==
  pc = "returned" =>
    \A i \in 1..Len(rankedOut) :
      /\ OutTier(i) = "complete"
           <=> AtLeast(rankedOut[i].rating_data_completeness, 100)
      /\ OutTier(i) = "partial"
           <=> /\ AtLeast(rankedOut[i].rating_data_completeness, 40)
               /\ ~AtLeast(rankedOut[i].rating_data_completeness, 100)

\* C4: the returned sequence is a permutation of the input: every input school
\* appears exactly once and nothing is added, dropped or duplicated.
C4_Permutation ==
  pc = "returned" =>
    /\ Len(rankedOut) = Len(schoolsArg)
    /\ \A i \in 1..Len(schoolsArg) :
         Cardinality({k \in 1..Len(rankedOut) : rankedOut[k] = schoolsArg[i]}) = 1

\* Two schools of different tiers are returned in the opposite of their input
\* order, and both are there.
C4_Witness ==
  /\ pc = "returned"
  /\ Len(schoolsArg) = 2
  /\ rankedOut[1] = schoolsArg[2]
  /\ rankedOut[2] = schoolsArg[1]
  /\ OutTier(1) = "ofstedOnly" /\ OutTier(2) = "unrated"

\* C10: within the complete tier and within the partial tier the schools are in
\* non-increasing order of overall rating, and schools of equal rating keep
\* their relative order of the input (the urn is the input position).
C10_RatingOrderStable ==
  pc = "returned" =>
    \A i, j \in 1..Len(rankedOut) :
      (i < j /\ OutTier(i) = OutTier(j) /\ OutTier(i) \in {"complete", "partial"})
        => /\ RatingOrZero(rankedOut[i]) >= RatingOrZero(rankedOut[j])
           /\ RatingOrZero(rankedOut[i]) = RatingOrZero(rankedOut[j])
                => rankedOut[i].urn < rankedOut[j].urn

\* A tier holding a tie (kept in input order) and a tier whose two schools were
\* swapped by the sort.
C10_Witness ==
  /\ pc = "returned"
  /\ Len(rankedOut) = 2
  /\ OutTier(1) = "partial" /\ OutTier(2) = "partial"
  /\ \/ /\ rankedOut[1].overall_rating = rankedOut[2].overall_rating
        /\ rankedOut[1].ofsted_rating # rankedOut[2].ofsted_rating
        /\ rankedOut[1].urn = 1
     \/ /\ RatingOrZero(rankedOut[1]) > RatingOrZero(rankedOut[2])
        /\ rankedOut[1].urn = 2

C12_OfstedOnlyByBand ==
  pc = "returned" =>
    \A i, j \in 1..Len(rankedOut) :
      (/\ i < j
       /\ OutTier(i) = "ofstedOnly" /\ OutTier(j) = "ofstedOnly"
       /\ Present(rankedOut[i].ofsted_rating) /\ Present(rankedOut[j].ofsted_rating))
        => Val(rankedOut[i].ofsted_rating) <= Val(rankedOut[j].ofsted_rating)

\* Two ofsted-only schools given as band 2 then band 1 are returned band 1
\* first.
C12_Witness ==
  /\ pc = "returned"
  /\ Len(rankedOut) = 2
  /\ OutTier(1) = "ofstedOnly" /\ OutTier(2) = "ofstedOnly"
  /\ rankedOut[1].ofsted_rating = Num(1) /\ rankedOut[1].urn = 2
  /\ rankedOut[2].ofsted_rating = Num(2)

\* C13: within the unrated tier of the returned sequence the schools are in
\* alphabetical order of name, and schools of the same name keep their input
\* order whatever their rating and Ofsted values are.
C13_UnratedByName ==
  pc = "returned" =>
    \A i, j \in 1..Len(rankedOut) :
      (i < j /\ OutTier(i) = "unrated" /\ OutTier(j) = "unrated")
        => /\ NameRank(rankedOut[i].name) <= NameRank(rankedOut[j].name)
           /\ rankedOut[i].name = rankedOut[j].name
                => rankedOut[i].urn < rankedOut[j].urn

\* Two unrated schools of a Scottish city: "a" with band 2 is returned ahead of
\* "b" with band 1, which came first in the input.
C13_Witness ==
  /\ pc = "returned"
  /\ Len(rankedOut) = 2
  /\ OutTier(1) = "unrated" /\ OutTier(2) = "unrated"
  /\ rankedOut[1].name = "a" /\ rankedOut[1].ofsted_rating = Num(2)
  /\ rankedOut[1].urn = 2
  /\ rankedOut[2].name = "b" /\ rankedOut[2].ofsted_rating = Num(1)

----------------------------------------------------------------------------
(* Claims on one rendered list, checked under SpecList *)

Min(a, b) == IF a < b THEN a ELSE b

\* C14: the entries written for a list are the first min(showMax, n) schools of
\* the sequence the ranking returns for it, in that order, however each fetch
\* of a displayed school's rating ended.
C14_TopNIsRankingPrefix ==
  (pc = "done" /\ hasContainer /\ Len(listArg) > 0) =>
    LET ranked == categorizeAndRankSchools(listArg, cityData.isScottish)
    IN  /\ Len(listItems) = Min(ShowMax, Len(listArg))
        /\ \A i \in 1..Len(listItems) : listItems[i].urn = ranked[i].urn

\* A list of six schools is cut to five entries; the school given last is
\* ranked first, a detail answer has replaced its rating, and the fetch for the
\* second entry brought nothing.
C14_Witness ==
  /\ pc = "done"
  /\ Len(listArg) = 6
  /\ Len(listItems) = 5
  /\ listItems[1].urn = 6
  /\ topSchools[1].overall_rating = Num(40)
  /\ listItems[1].overall_rating = DetailRating
  /\ listItems[2] = topSchools[2]

----------------------------------------------------------------------------
(* Claims on the city page, checked under SpecCity *)

\* The schools of the lists rendered so far.
Rendered ==
  {topPrimary[i] : i \in 1..Len(topPrimary)}
    \cup {topSecondary[i] : i \in 1..Len(topSecondary)}

\* The tier the page's ranking gave a rendered school.
CityTier(s) == TierOf(s, cityData.isScottish)

\* country == 'Scotland' OR is_scotland == true
ScotlandFlagged(s) == s.country = "Scotland" \/ s.is_scotland

\* The nation a school record belongs to; an unknown country counts as England.
InEngland(s) == ~ScotlandFlagged(s) /\ s.country \in {"", "England"}

\* C3: a school is placed in the ofsted-only tier exactly when it has no stored
\* overall rating, it has an Ofsted band and its jurisdiction is England; a
\* school of Scotland, Wales or Northern Ireland is never placed there.
C3_OfstedOnlyIffEngland ==
  countryLookup = "ok" =>
    \A s \in Rendered :
      CityTier(s) = "ofstedOnly"
        <=> (~Present(s.overall_rating) /\ Truthy(s.ofsted_rating) /\ InEngland(s))

\* C8: on the city page the Scotland policy is selected exactly when the school
\* the page takes its country from has country 'Scotland' or is_scotland true.
C8_CityHonoursBothKeys ==
  (countryLookup = "ok" /\ pc \in {"primary", "secondary", "done"}) =>
    (cityData.isScottish <=> ScotlandFlagged(cityData.schools[1]))

\* The tier the same page code gives a school that is the only one of its city.
TierAlone(s) == TierOf(s, getCityCountry(<<s>>) = "Scotland")

\* C9: the tier of a school is a function of that school's own metrics: it is
\* the tier the school receives when it is alone in the collection, whatever
\* the other schools, their order and the page-level state are.
C9_TierOfOwnMetrics ==
  countryLookup = "ok" =>
    \A s \in Rendered : CityTier(s) = TierAlone(s)

----------------------------------------------------------------------------
(* Claims on the school page, checked under SpecSchool *)

SchoolShown == pc \in {"performance", "nearby", "dispatched"}

\* The components the displayed record carries (none when the field is null).
ShownComponents == safeParseJSON(currentSchoolData.rating_components)

\* C6: once a Scotland-flagged school record has been loaded and adjusted, its
\* rating_components holds no component named 'ofsted', whether or not the
\* source data delivered one.
C6_NoOfstedForScotland ==
  (SchoolShown /\ IsScottishPayload(currentSchoolData))
    => ~HasComponent(ShownComponents, "ofsted")

\* C7: for every school record as exposed to display, rating_data_completeness
\* equals the sum of the weights of the components in its rating_components.
C7_CompletenessIsWeightSum ==
  SchoolShown
    => currentSchoolData.rating_data_completeness = Num(SumWeights(ShownComponents))

\* C16: after the Scottish adjustment the academic component, if present, has
\* weight 60 and the attendance component, if present, has weight 40, and
\* rating_data_completeness is 100 with both, 60 with academic only, 40 with
\* attendance only and 0 with neither.
C16_ScottishWeights ==
  (SchoolShown /\ IsScottishPayload(currentSchoolData)) =>
    LET comps == ShownComponents
        academic == HasComponent(comps, "academic")
        attendance == HasComponent(comps, "attendance")
    IN  /\ \A i \in 1..Len(comps) :
             /\ comps[i].name = "academic" => comps[i].weight = 60
             /\ comps[i].name = "attendance" => comps[i].weight = 40
        /\ currentSchoolData.rating_data_completeness =
             Num(IF academic /\ attendance THEN 100
                 ELSE IF academic THEN 60
                 ELSE IF attendance THEN 40
                 ELSE 0)

----------------------------------------------------------------------------
(* Claims on the server's answers, checked under SpecApi *)

\* C5: the overall rating an API exposes for a school is absent exactly when
\* the school's data completeness is below 50, and otherwise it is present and
\* lies in [1, 10]; a school with no usable data, or with an Ofsted band as its
\* only data, is never given a numeric default rating.
C5_RatingAbsentIffBelowThreshold ==
  pc = "answered" =>
    /\ response.overall_rating = Absent
         <=> StoredCompleteness(dbRow) < MinCompleteness
    /\ Present(response.overall_rating)
         => (Val(response.overall_rating) >= 10 /\ Val(response.overall_rating) <= 100)

\* A school of the `schools` array of a search answer, as the city page receives
\* it: the row's ofsted_rating, the answered overall_rating and no
\* rating_data_completeness (no search query selects it).
SearchResultSchool ==
  [urn |-> 1,
   name |-> "a",
   overall_rating |-> response.overall_rating,
   rating_data_completeness |-> Absent,
   ofsted_rating |-> dbRow.ofsted]

SearchRoutes == {"search", "search ofsted", "search/city"}

\* C15: a school with no Ofsted band, no academic score and no attendance
\* figure has no overall rating in the search results, and the ranking of the
\* city page places it in the unrated tier.
C15_NoDataSchoolUnrated ==
  (/\ pc = "answered"
   /\ response.route \in SearchRoutes
   /\ StoredCompleteness(dbRow) = 0)
    => /\ response.overall_rating = Absent
       /\ TierOf(SearchResultSchool, FALSE) = "unrated"

\* The handlers that answer a score derived from the Ofsted band.
OfstedDerivedRoutes ==
  {"schools/:urn joined", "schools/:urn", "search ofsted", "local-authority summary"}

\* C17: the Ofsted-derived score is 9, 7, 5, 3 for the bands 1, 2, 3, 4, and no
\* number is produced for a school with no Ofsted row or no band.
C17_OfstedStepFunction ==
  (pc = "answered" /\ response.route \in OfstedDerivedRoutes) =>
    response.overall_rating =
      (CASE dbRow.ofsted = Num(1) -> Num(90)
         [] dbRow.ofsted = Num(2) -> Num(70)
         [] dbRow.ofsted = Num(3) -> Num(50)
         [] dbRow.ofsted = Num(4) -> Num(30)
         [] OTHER -> Absent)

\* The score, in tenths, of a component of a row: the step function of the
\* band for ofsted, and the scores of the worked example (7.2 and 9.5) for a
\* row that has academic and attendance figures.
ComponentScore(row, name) ==
  CASE name = "ofsted" -> (CASE row.ofsted = Num(1) -> 90
                             [] row.ofsted = Num(2) -> 70
                             [] row.ofsted = Num(3) -> 50
                             [] OTHER -> 30)
    [] name = "academic" -> 72
    [] name = "attendance" -> 95

\* The components a row has data for.
PresentComponents(row) ==
  {name \in {"ofsted", "academic", "attendance"} :
     \/ name = "ofsted" /\ Present(row.ofsted)
     \/ name = "academic" /\ row.academic
     \/ name = "attendance" /\ row.attendance}

RECURSIVE WeightedSum(_, _)
WeightedSum(row, names) ==
  IF names = {} THEN 0
  ELSE LET name == CHOOSE n \in names : TRUE
       IN  ComponentScore(row, name) * DeliveredWeight(name)
             + WeightedSum(row, names \ {name})

\* The weighted blend over the weights present, rounded to one decimal (the
\* result is in tenths) and clamped to [1, 10].
BlendedRating(row) ==
  LET num == WeightedSum(row, PresentComponents(row))
      den == StoredCompleteness(row)
      rounded == (2 * num + den) \div (2 * den)
  IN  IF rounded < 10 THEN 10 ELSE IF rounded > 100 THEN 100 ELSE rounded

\* C18: for a school whose completeness is at least 50 the overall rating the
\* school handler answers is the weighted blend of the scores of its present
\* components (8.3 for band 1, academic 7.2, attendance 9.5 under 30/45/25).
C18_RatingIsWeightedBlend ==
  (/\ pc = "answered"
   /\ response.route \in {"schools/:urn joined", "schools/:urn"}
   /\ StoredCompleteness(dbRow) >= MinCompleteness)
    => response.overall_rating = Num(BlendedRating(dbRow))

----------------------------------------------------------------------------
(* Claims on the local-authority averages, checked under SpecLa *)

LaFields ==
  {"english_score", "math_score", "science_score", "overall_absence_rate",
   "fsm_percentage"}

\* The average the summary answered for a field.
AnsweredMean(field) ==
  CASE field = "english_score" -> laSummary.avgEnglish
    [] field = "math_score" -> laSummary.avgMaths
    [] field = "science_score" -> laSummary.avgScience
    [] field = "overall_absence_rate" -> laSummary.avgAttendance
    [] field = "fsm_percentage" -> laSummary.avgFSM

\* The schools that have a figure, and the figure the mean is taken over
\* (the attendance rate is 100 minus the absence rate).
Having(field) == {i \in 1..Len(laRows) : Present(laRows[i][field])}

RECURSIVE SumOver(_, _)
SumOver(field, schools) ==
  IF schools = {} THEN 0
  ELSE LET i == CHOOSE s \in schools : TRUE
           v == Val(laRows[i][field])
       IN  (IF field = "overall_absence_rate" THEN 100 - v ELSE v)
             + SumOver(field, schools \ {i})

\* C19: each mean of the summary is the sum of the figure over the schools
\* that have it divided by the number of those schools, and it is null when no
\* school has the figure.
C19_MeanOverSchoolsHavingFigure ==
  pc = "answered" =>
    \A field \in LaFields :
      IF Having(field) = {}
        THEN AnsweredMean(field) = Absent
        ELSE /\ Present(AnsweredMean(field))
             /\ Val(AnsweredMean(field)) * Cardinality(Having(field))
                  = 10 * SumOver(field, Having(field))

\* C20: a figure that is exactly 0 is present: every school whose figure is
\* not null, zero included, is counted in the mean of that figure.
C20_ZeroIsPresent ==
  pc = "answered" =>
    \A field \in LaFields :
      laSummary.counted[field] = Cardinality(Having(field))

\* C21: a school whose phase text names an all-through school is put in the
\* primary list and in the secondary list, and is counted in the primary
\* count and in the secondary count; the two counts are the numbers of
\* schools that are primary or all-through, and secondary or all-through.
PhaseIs(school, texts) ==
  school.phase_of_education \in texts

InList(school, list) ==
  \E j \in 1..Len(list) : list[j].urn = school.urn

CountOf(texts) ==
  Cardinality({i \in 1..Len(cityData.schools) : PhaseIs(cityData.schools[i], texts)})

C21_AllThroughInBothPhases ==
  pc = "processed" =>
    /\ \A i \in 1..Len(cityData.schools) :
         PhaseIs(cityData.schools[i], {"All-through"}) =>
           /\ InList(cityData.schools[i], cityData.primary)
           /\ InList(cityData.schools[i], cityData.secondary)
    /\ cityData.primaryCount = CountOf({"Primary", "All-through"})
    /\ cityData.secondaryCount =
         CountOf({"Secondary", "Middle deemed secondary", "All-through"})

\* One all-through school and one primary school: the counts add up to more
\* than the number of schools.
C21_Witness ==
  /\ pc = "processed"
  /\ Len(cityData.schools) = 2
  /\ cityData.schools[1].phase_of_education = "All-through"
  /\ cityData.schools[2].phase_of_education = "Primary"
  /\ cityData.primaryCount = 2
  /\ cityData.secondaryCount = 1

\* C22: for a local authority whose schools are outside England the summary
\* increments no Ofsted band counter (outstanding, good, requires
\* improvement, inadequate, not inspected).
C22_NoOfstedCountsOutsideEngland ==
  (/\ pc = "answered"
   /\ response.route = "local-authority summary"
   /\ dbRow.country # "England") =>
    \A band \in DOMAIN response.ofstedCounts : response.ofstedCounts[band] = 0

\* C23: no two runs of the batch driver recompute and persist the rating of
\* the same school at overlapping times: while one run is recomputing its
\* selected schools, no other run is recomputing a school of that selection.
RunsOverlapOn(s) ==
  \E r1, r2 \in BatchRuns :
    /\ r1 # r2
    /\ batchRun[r1].pc = "running"
    /\ batchRun[r2].pc = "running"
    /\ s \in batchRun[r1].selected
    /\ s \in batchRun[r2].selected

C23_SingleWriterPerSchool ==
  pc = "batch" => \A s \in BatchSchools : ~RunsOverlapOn(s)

\* C24: a run in which the recomputation of one school failed still
\* recomputes and persists every other school it selected, and finishes.
RunEnded(r) ==
  batchRun[r].pc \in {"done", "rejected"}

C24_FailureIsolatedPerSchool ==
  pc = "batch" =>
    \A r \in BatchRuns :
      RunEnded(r) =>
        /\ batchRun[r].pc = "done"
        /\ \A s \in batchRun[r].selected \ failingSchools : storedRatings[s] = "fresh"

\* C25: for a Scotland-flagged school the science subject is absent on every
\* rendering path: its test-score row is never given a score and its
\* rating-breakdown item is never shown, whatever the payload carries.
C25_NoScienceForScotland ==
  (pc \in {"shown", "shownAll", "shownRewrite"} /\ IsScottishPayload(payload)) =>
    /\ scienceDom.scoreText # "percent"
    /\ ~scienceDom.itemShown

\* C26: at most one review of the same IP for the same school is stored
\* within 24 hours, also when submissions are handled concurrently: only one
\* submission is answered 201.
Answered(code) ==
  {h \in DOMAIN reviewReq : reviewReq[h] = code}

C26_OneReviewPerDay ==
  pc = "reviews" =>
    /\ reviewRows <= 1
    /\ Cardinality(Answered("201")) <= 1

\* C27: at most one helpful-vote row is stored for a (review, IP) pair and
\* helpful_count is incremented at most once for it, also when two requests
\* are handled concurrently.
C27_OneVotePerReviewAndIp ==
  (pc = "helpful" /\ reviewExists) =>
    /\ voteRows <= 1
    /\ helpfulCount <= 1

\* C28: once every helpful request has been answered, helpful_count of the
\* review equals the number of vote rows stored for it, and a review that
\* does not exist has no vote row.
AllAnswered ==
  \A h \in DOMAIN helpfulReq : helpfulReq[h].pc \in {"200", "400", "404", "500"}

C28_CountEqualsVoteRows ==
  (pc = "helpful" /\ AllAnswered) =>
    /\ helpfulCount = voteRows
    /\ ~reviewExists => voteRows = 0

\* C29: for every type and every combination of the phase, ofsted and la
\* filters, the count statement of GET /api/search has the WHERE conditions
\* of the result statement, each placeholder bound to the same value.
BoundConditions(stmt) ==
  [i \in 1..Len(stmt.conds) |->
     [column |-> stmt.conds[i].column,
      value |-> IF stmt.conds[i].placeholder \in 1..Len(stmt.params)
                  THEN stmt.params[stmt.conds[i].placeholder]
                  ELSE "unbound"]]

C29_TotalUsesResultConditions ==
  (pc = "searched" /\ searchAnswer.status = 200) =>
    BoundConditions(searchAnswer.count) = BoundConditions(searchAnswer.result)

\* C30: a GET for /<city>/<identifier> with a known city is answered with the
\* school page when the identifier is digits optionally followed by '-' and a
\* slug, and with the local-authority page otherwise; an unknown /api path
\* ends in the JSON 404, /school/<id> serves the school page, and no request
\* ends in a 500.
RouteAnswered ==
  pc = "route" /\ routeAnswer.status \in {200, 404, 500}

C30_CityIdentifierRouting ==
  RouteAnswered =>
    /\ routeAnswer.status # 500
    /\ ToLowerCase(routeRequest.city) \in ukCities =>
         routeAnswer.body = IF LooksLikeUrn(routeRequest.identifier)
                              THEN "school.html" ELSE "local-authority.html"
    /\ routeRequest.city = "api" => (routeAnswer.status = 404 /\ routeAnswer.body = "json")
    /\ routeRequest.city = "school" => routeAnswer.body = "school.html"

=============================================================================
